---------------------------- MODULE Spec2Model ----------------------------
(***************************************************************************)
(* LexiGuard: the screening call (app/ui/app_streamlit.py), the risk       *)
(* scorer (app/risk/scorer.py), the audit log (app/audit/logger.py), the   *)
(* entity store (app/ingest/ofac_loader.py) and the media index            *)
(* (app/media/rss.py).                                                     *)
(*                                                                         *)
(* Text is a sequence of one-character strings.  Numbers that the code     *)
(* keeps as floats are kept exactly: a score returned to the caller is an  *)
(* integer number of hundredths (6000 is 60.00), a weight is a number of   *)
(* hundredths too (60 is 0.6), and a recency decay is a number of          *)
(* thirtieths (15 is 0.5).                                                 *)
(***************************************************************************)
EXTENDS Integers, Sequences, FiniteSets, TLC

VARIABLES
  sanctions_entities,  \* table sanctions_entities, in rowid order
  adverse_media,       \* table adverse_media, in rowid order
  audit_logs,          \* table audit_logs, in rowid order
  audit_seq,           \* table sqlite_sequence: the last id given to an audit row
  now,                 \* the wall clock, in seconds
  pc,                  \* where the screening call in flight stands
  call,                \* the locals of the screening call in flight
  stages,              \* the stages the call in flight has completed
  result,              \* what the last call returned to its caller
  raised,              \* the exception the last call let reach its caller
  st_msgs,             \* what the call showed on the operator channel
  listing,             \* what the last read of the audit log returned
  env,                 \* what the process found at start-up
  score_in,            \* scoring harness: the arguments
  score_out,           \* scoring harness: the risk data computed
  decay_in,            \* decay harness: the two publish dates
  decay_out,           \* decay harness: their two decays
  match_in,            \* matching harness: the store, the query, the faults
  match_out,           \* matching harness: the candidates computed
  ingest,              \* the last ingest_feed call: its feed and what failed in it
  refresh,             \* per session: its normalize_and_store call in flight, after its DELETE
  fetched,             \* what the last _fetch_rows of a concurrent reader returned
  fuzzy,               \* the last fuzzy_match call: its arguments and what it did
  swept,               \* the last cleanup_old_logs call: the table it found
  tagged,              \* the last tag_content call: its arguments and its tags
  searched             \* the last search_media call on its own: its name and its articles

vars == <<sanctions_entities, adverse_media, audit_logs, audit_seq, now, pc, call,
          stages, result, raised, st_msgs, listing, env,
          score_in, score_out, decay_in, decay_out, match_in, match_out,
          ingest, refresh, fetched, fuzzy, swept, tagged, searched>>

pipeline_vars == <<sanctions_entities, adverse_media, audit_logs, audit_seq, now, pc, call,
                   stages, result, raised, st_msgs, listing, env>>

harness_vars == <<score_in, score_out, decay_in, decay_out, match_in, match_out,
                  ingest, refresh, fetched, fuzzy, swept, tagged, searched>>

-----------------------------------------------------------------------------
(* Bounds of the model *)

MaxCalls == 2
MaxListed == 3
MaxTime == 1
MaxMedia == 5
MaxAge == 32
MaxRows == 100
MaxWaits == 1
MaxText == 3

-----------------------------------------------------------------------------
(* Python's None *)

None == [none |-> TRUE]

Min(a, b) == IF a <= b THEN a ELSE b

Max(a, b) == IF a >= b THEN a ELSE b

-----------------------------------------------------------------------------
(* Text *)

Letters == {"A", "B", "a", "b"}

Whitespace == {" "}

Upper(c) == CASE c = "a" -> "A" [] c = "b" -> "B" [] OTHER -> c

\* str.upper()
upper(s) == [i \in 1..Len(s) |-> Upper(s[i])]

\* the characters [A-Z0-9] of the tokenizer's pattern
IsAZ09(c) == c \in {"A", "B"}

RECURSIVE lstrip(_)
lstrip(s) == IF s # <<>> /\ Head(s) \in Whitespace THEN lstrip(Tail(s)) ELSE s

RECURSIVE rstrip(_)
rstrip(s) ==
  IF s # <<>> /\ s[Len(s)] \in Whitespace THEN rstrip(SubSeq(s, 1, Len(s) - 1)) ELSE s

\* str.strip()
strip(s) == rstrip(lstrip(s))

\* the code points, for Python's comparison of strings
Ord(c) ==
  CASE c = " " -> 32 [] c = "-" -> 45 [] c = "A" -> 65 [] c = "B" -> 66
    [] c = "a" -> 97 [] c = "b" -> 98 [] OTHER -> 0

RECURSIVE StrLess(_, _)
StrLess(s, t) ==
  IF t = <<>> THEN FALSE
  ELSE IF s = <<>> THEN TRUE
  ELSE IF Ord(Head(s)) # Ord(Head(t)) THEN Ord(Head(s)) < Ord(Head(t))
  ELSE StrLess(Tail(s), Tail(t))

\* needle occurs in hay (needle in hay; LIKE '%needle%' once the case is folded)
Contains(hay, needle) ==
  \E i \in 0..(Len(hay) - Len(needle)) :
    \A j \in 1..Len(needle) : hay[i + j] = needle[j]

\* the maximal runs of characters satisfying keep, in order, as re.split and
\* str.split leave them once the empty parts are dropped
RECURSIVE Runs(_, _, _)
Runs(s, cur, isSep) ==
  IF s = <<>> THEN (IF cur = <<>> THEN <<>> ELSE <<cur>>)
  ELSE IF isSep[Head(s)]
       THEN (IF cur = <<>> THEN <<>> ELSE <<cur>>) \o Runs(Tail(s), <<>>, isSep)
       ELSE Runs(Tail(s), Append(cur, Head(s)), isSep)

Alphabet == Letters \cup Whitespace \cup {"-"}

\* [t for t in re.split(r"[^A-Z0-9]+", q_up) if t]
Tokenize(q_up) == Runs(q_up, <<>>, [c \in Alphabet |-> ~IsAZ09(c)])

\* str.split()
SplitWs(s) == Runs(s, <<>>, [c \in Alphabet |-> c \in Whitespace])

Range(f) == {f[i] : i \in DOMAIN f}


\* " ".join(parts)
RECURSIVE JoinSp(_)
JoinSp(parts) ==
  IF parts = <<>> THEN <<>>
  ELSE IF Len(parts) = 1 THEN parts[1]
  ELSE parts[1] \o <<" ">> \o JoinSp(Tail(parts))

\* sorted(S) for a set of strings
RECURSIVE Sorted(_)
Sorted(S) ==
  IF S = {} THEN <<>>
  ELSE LET m == CHOOSE x \in S : \A y \in S \ {x} : StrLess(x, y)
       IN <<m>> \o Sorted(S \ {m})

-----------------------------------------------------------------------------
(* rapidfuzz.fuzz.token_set_ratio, the scorer perform_screening ranks with *)

RECURSIVE LcsLen(_, _)
LcsLen(s, t) ==
  IF s = <<>> \/ t = <<>> THEN 0
  ELSE IF Head(s) = Head(t) THEN 1 + LcsLen(Tail(s), Tail(t))
  ELSE Max(LcsLen(Tail(s), t), LcsLen(s, Tail(t)))

\* the insert/delete distance of two strings
IndelDistance(s, t) == Len(s) + Len(t) - 2 * LcsLen(s, t)

\* int(100 - 100 * dist / lensum): the score as perform_screening truncates it
NormDistance(dist, lensum) ==
  IF lensum = 0 THEN 100 ELSE (100 * (lensum - dist)) \div lensum

token_set_ratio(s1, s2) ==
  LET tokens_a == Range(SplitWs(s1))
      tokens_b == Range(SplitWs(s2))
      intersect == tokens_a \cap tokens_b
      diff_ab == tokens_a \ tokens_b
      diff_ba == tokens_b \ tokens_a
      ab == JoinSp(Sorted(diff_ab))
      ba == JoinSp(Sorted(diff_ba))
      sect_len == Len(JoinSp(Sorted(intersect)))
      sep == IF sect_len # 0 THEN 1 ELSE 0
      sect_ab_len == sect_len + sep + Len(ab)
      sect_ba_len == sect_len + sep + Len(ba)
      plain == NormDistance(IndelDistance(ab, ba), sect_ab_len + sect_ba_len)
      sect_ab_ratio == NormDistance(sep + Len(ab), sect_len + sect_ab_len)
      sect_ba_ratio == NormDistance(sep + Len(ba), sect_len + sect_ba_len)
  IN IF tokens_a = {} \/ tokens_b = {} THEN 0
     ELSE IF intersect # {} /\ (diff_ab = {} \/ diff_ba = {}) THEN 100
     ELSE IF sect_len = 0 THEN plain
     ELSE Max(plain, Max(sect_ab_ratio, sect_ba_ratio))

-----------------------------------------------------------------------------
(* The entity store: ofac_loader.py *)

\* _clean_name: no name over the model's alphabet carries the "Secondary
\* sanctions risk:" or "Linked To:" boilerplate or is longer than 120
\* characters, so those rewrites leave it as it is
clean_name(t) ==
  IF t = <<>> THEN <<>>
  ELSE upper(strip(JoinSp(SplitWs(strip(t)))))

\* the feeds load_ofac_csv can hand to normalize_and_store: rows of
\* (sdn_name, country)
Feeds ==
  { << [sdn_name |-> <<"a", " ", "B">>, country |-> "Russia"],
       [sdn_name |-> <<" ">>, country |-> ""],
       [sdn_name |-> <<"B">>, country |-> "USA"] >> }

\* the rows normalize_and_store leaves in sanctions_entities: the table is
\* emptied, then one row is inserted per feed row
normalize_and_store(df) ==
  [i \in 1..Len(df) |->
     [name |-> clean_name(strip(df[i].sdn_name)), country |-> df[i].country]]

\* SQL UPPER() and str.upper() on a country
upper_country(c) == IF c = "Russia" THEN "RUSSIA" ELSE c

-----------------------------------------------------------------------------
(* Queries of perform_screening on sanctions_entities *)

\* SELECT ... LIMIT n: the first n rows, in rowid order, that satisfy keep
Limit(rows, n) == SubSeq(rows, 1, Min(n, Len(rows)))

ROW_LIMIT == 100

TOP_RANKED == 10

\* ctry = None if (not query_country or query_country == "Any") else ...
Ctry(query_country) ==
  IF query_country = "" \/ query_country = "Any" THEN None
  ELSE [value |-> upper_country(query_country)]

CountryOk(r, ctry) == ctry = None \/ upper_country(r.country) = ctry.value

\* a token-AND query that does not look at the tokens
TokenAndRowsAnyName(store, tokens, ctry) ==
  LET keep(r) == r.name # <<>> /\ CountryOk(r, ctry)
  IN Limit(SelectSeq(store, keep), ROW_LIMIT)

\* the token-AND query
TokenAndRows(store, tokens, ctry) ==
  LET keep(r) == /\ r.name # <<>>
                 /\ \A i \in 1..Len(tokens) : Contains(upper(r.name), tokens[i])
                 /\ CountryOk(r, ctry)
  IN Limit(SelectSeq(store, keep), ROW_LIMIT)

\* the token-OR query
TokenOrRows(store, tokens, ctry) ==
  LET keep(r) == /\ r.name # <<>>
                 /\ \E i \in 1..Len(tokens) : Contains(upper(r.name), tokens[i])
                 /\ CountryOk(r, ctry)
  IN Limit(SelectSeq(store, keep), ROW_LIMIT)

\* rows = token-AND rows, or the token-OR rows when there are none
PrefilterRows(store, tokens, ctry) ==
  IF TokenAndRows(store, tokens, ctry) # <<>>
  THEN TokenAndRows(store, tokens, ctry)
  ELSE TokenOrRows(store, tokens, ctry)

\* (score, nm, c) tuples compare as Python compares tuples
TupleLess(x, y) ==
  \/ x.score < y.score
  \/ x.score = y.score /\ StrLess(x.nm, y.nm)
  \/ x.score = y.score /\ x.nm = y.nm /\ x.c < y.c

CountryRank(c) ==
  CASE c = "" -> 0 [] c = "RUSSIA" -> 1 [] c = "Russia" -> 2 [] c = "USA" -> 3
    [] OTHER -> 4

\* a list left unsorted
SortDescSkipped(scored) == scored

\* scored.sort(reverse=True): the tuples in descending order, equal tuples in
\* the order they had; a tuple's place is the number of tuples that go before
\* it (\o <<>> has each list built once)
SortDesc(scored) ==
  LET n == Len(scored)
      keys == [i \in 1..n |-> [score |-> scored[i].score, nm |-> scored[i].nm,
                               c |-> CountryRank(scored[i].c)]] \o <<>>
      before(j, i) == \/ TupleLess(keys[i], keys[j])
                      \/ keys[i] = keys[j] /\ j < i
      place == [i \in 1..n |-> 1 + Cardinality({j \in 1..n : before(j, i)})] \o <<>>
  IN [r \in 1..n |-> scored[CHOOSE i \in 1..n : place[i] = r]]

\* step 3 with RapidFuzz: score every row, sort descending, keep ten
RankedMatches(q_up, rows) ==
  LET scored == [i \in 1..Len(rows) |->
                   [score |-> token_set_ratio(q_up, upper(rows[i].name)),
                    nm |-> rows[i].name, c |-> rows[i].country]] \o <<>>
      top == Limit(SortDesc(scored), TOP_RANKED)
  IN [i \in 1..Len(top) |->
        [entity_name |-> top[i].nm, country |-> top[i].c,
         match_score |-> top[i].score,
         explanation |-> <<"Token-AND SQL + RapidFuzz token_set_ratio = ",
                           top[i].score>>]]

\* step 3 when RapidFuzz cannot be used: the first ten rows, each scored 100
UnrankedMatches(rows) ==
  LET top == Limit(rows, TOP_RANKED)
  IN [i \in 1..Len(top) |->
        [entity_name |-> top[i].name, country |-> top[i].country,
         match_score |-> 100,
         explanation |-> <<"Token-AND SQL (no RapidFuzz)">>]]

\* matches as steps 1-3 leave them; fuzz_fails: the try block of step 3 raised
Matches(store, q_up, tokens, ctry, fuzz_fails) ==
  LET rows == PrefilterRows(store, tokens, ctry)
  IN IF rows = <<>> THEN <<>>
     ELSE IF fuzz_fails THEN UnrankedMatches(rows)
     ELSE RankedMatches(q_up, rows)

-----------------------------------------------------------------------------
(* Publish dates.  A date string is None (no date, or the empty string),   *)
(* or an ISO-8601 text of a day with a suffix "", "Z" or "+00:00", or a    *)
(* text in another format (the RFC-822 dates of RSS feeds)                 *)

IsoDate(day, tz) == [text |-> "iso", day |-> day, tz |-> tz]

OtherDate(day) == [text |-> "rfc822", day |-> day]

SECONDS_PER_DAY == 86400

\* the day datetime.utcnow() falls on
Today(t) == t \div SECONDS_PER_DAY

\* date_str.replace("Z", "+00:00")
replace_Z(d) == IF d.text = "iso" /\ d.tz = "Z" THEN IsoDate(d.day, "+00:00") ELSE d

\* datetime.fromisoformat: a naive or an aware datetime, or ValueError
fromisoformat(d) ==
  IF d.text = "iso" /\ d.tz # "Z"
  THEN [ok |-> TRUE, day |-> d.day, aware |-> d.tz # ""]
  ELSE [ok |-> FALSE]

-----------------------------------------------------------------------------
(* The risk scorer: scorer.py, config.py *)

\* the weights of the simplified formula, in hundredths
WeightsOfFallback == [sanctions_match |-> 70, adverse_media |-> 20, pep_flag |-> 10]

\* weights in hundredths
RISK_WEIGHTS == [sanctions_match |-> 60, adverse_media |-> 30, pep_flag |-> 10]

RISK_THRESHOLDS == [HIGH |-> 75, MEDIUM |-> 40, LOW |-> 0]

MEDIA_RECENCY_FACTOR == 30

RECURSIVE Gcd(_, _)
Gcd(a, b) == IF b = 0 THEN a ELSE Gcd(b, a % b)

\* exact fractions n/d, d > 0, in lowest terms
Frac(n, d) ==
  LET g == Gcd(IF n < 0 THEN -n ELSE n, d)
  IN [n |-> n \div g, d |-> d \div g]

FAdd(x, y) == Frac(x.n * y.d + y.n * x.d, x.d * y.d)

\* x * w, w in hundredths
FScale(x, w) == Frac(x.n * w, x.d * 100)

FLeq(x, y) == x.n * y.d <= y.n * x.d

FMin(x, y) == IF FLeq(x, y) THEN x ELSE y

FMax(x, y) == IF FLeq(x, y) THEN y ELSE x

\* the integer nearest to n/d, a tie going to the even one, as round() does
RoundHalfEven(n, d) ==
  LET q == n \div d
      r == n % d
  IN IF 2 * r < d THEN q
     ELSE IF 2 * r > d THEN q + 1
     ELSE IF q % 2 = 0 THEN q ELSE q + 1

\* round(x, 2), in hundredths
Round2(x) == RoundHalfEven(x.n * 100, x.d)

\* _recency_decay, in units of 1/MEDIA_RECENCY_FACTOR; today: the day of utcnow()
recency_decay(date_str, today) ==
  IF date_str = None THEN MEDIA_RECENCY_FACTOR \div 2
  ELSE LET pub_date == fromisoformat(replace_Z(date_str))
       IN IF ~pub_date.ok THEN MEDIA_RECENCY_FACTOR \div 2
          \* naive utcnow() minus an aware datetime: TypeError
          ELSE IF pub_date.aware THEN MEDIA_RECENCY_FACTOR \div 2
          ELSE LET days_old == today - pub_date.day
               IN Max(MEDIA_RECENCY_FACTOR \div 10,
                      Min(MEDIA_RECENCY_FACTOR, MEDIA_RECENCY_FACTOR - days_old))

high_risk_tags == {"sanctions", "crime", "fraud"}

\* the sum of base_score * recency_factor over the items, in units of
\* 1/MEDIA_RECENCY_FACTOR
RECURSIVE MediaSum(_, _)
MediaSum(media_items, today) ==
  IF media_items = <<>> THEN 0
  ELSE LET media == Head(media_items)
           base_score == IF \E i \in 1..Len(media.tags) : media.tags[i] \in high_risk_tags
                         THEN 50 ELSE 30
       IN base_score * recency_decay(media.published_date, today)
            + MediaSum(Tail(media_items), today)

\* a media score that is the sum over the items, not their mean
ScoreMediaSummed(media_items, today) ==
  IF media_items = <<>> THEN Frac(0, 1)
  ELSE FMin(Frac(100, 1), Frac(MediaSum(media_items, today), MEDIA_RECENCY_FACTOR))

\* _score_media
score_media(media_items, today) ==
  IF media_items = <<>> THEN Frac(0, 1)
  ELSE FMin(Frac(100, 1),
            Frac(MediaSum(media_items, today), MEDIA_RECENCY_FACTOR * Len(media_items)))

\* max(m["match_score"] for m in matches), 0 for no match
RECURSIVE BestMatch(_)
BestMatch(matches) ==
  IF matches = <<>> THEN 0
  ELSE Max(Head(matches).match_score, BestMatch(Tail(matches)))

\* _score_sanctions
score_sanctions(matches) == Frac(BestMatch(matches), 1)

\* _determine_risk_level
determine_risk_level(score) ==
  IF FLeq(Frac(RISK_THRESHOLDS.HIGH, 1), score) THEN "HIGH"
  ELSE IF FLeq(Frac(RISK_THRESHOLDS.MEDIUM, 1), score) THEN "MEDIUM"
  ELSE "LOW"

\* RiskScorer.score_screening; scores are returned in hundredths
score_screening(sanctions_matches, media_results, pep_flag, today) ==
  LET sanctions_score == score_sanctions(sanctions_matches)
      media_score == score_media(media_results, today)
      pep_score == Frac(IF pep_flag THEN 20 ELSE 0, 1)
      weighted == FAdd(FAdd(FScale(sanctions_score, RISK_WEIGHTS.sanctions_match),
                            FScale(media_score, RISK_WEIGHTS.adverse_media)),
                       FScale(pep_score, RISK_WEIGHTS.pep_flag))
      composite_score == FMin(Frac(100, 1), FMax(Frac(0, 1), weighted))
  IN [composite_score |-> Round2(composite_score),
      risk_level |-> determine_risk_level(composite_score),
      sanctions_score |-> Round2(sanctions_score),
      media_score |-> Round2(media_score),
      pep_score |-> Round2(pep_score),
      breakdown |->
        [sanctions |-> [weight |-> RISK_WEIGHTS.sanctions_match,
                        score |-> Round2(sanctions_score)],
         media |-> [weight |-> RISK_WEIGHTS.adverse_media,
                    score |-> Round2(media_score)],
         pep |-> [weight |-> RISK_WEIGHTS.pep_flag, score |-> Round2(pep_score)]]]

\* max(...) * 0.7 / 100.0 * 100 as the float arithmetic gives it: exact but
\* for 45, where the product is 31.499999999999996
FallbackSancPart(best) ==
  IF best = 45 THEN Frac(314999, 10000) ELSE Frac(7 * best, 10)

\* the simplified formula of perform_screening, used when the scorer raises;
\* scores are returned in hundredths
fallback_risk_data(matches, media_results, pep_flag) ==
  LET sanc_part == FallbackSancPart(BestMatch(matches))
      media_part == Frac(Min(Len(media_results), 5) * 5, 1)
      pep_part == Frac(IF pep_flag THEN 10 ELSE 0, 1)
      total == FAdd(FAdd(sanc_part, media_part), pep_part)
      composite == RoundHalfEven(total.n, total.d)
      level == IF composite >= 70 THEN "HIGH"
               ELSE IF composite >= 40 THEN "MEDIUM" ELSE "LOW"
  IN [risk_level |-> level,
      composite_score |-> 100 * composite,
      breakdown |->
        [sanctions |-> [weight |-> 70,
                        score |-> 100 * RoundHalfEven(sanc_part.n, sanc_part.d)],
         media |-> [weight |-> 20,
                    score |-> 100 * RoundHalfEven(media_part.n, media_part.d)],
         pep |-> [weight |-> 10,
                  score |-> 100 * RoundHalfEven(pep_part.n, pep_part.d)]]]

\* pep_flag = (query_country in ["USA","UK","Canada"])
PepFlag(query_country) == query_country \in {"USA", "UK", "Canada"}

\* step 5 of perform_screening: the scorer, or the simplified formula when
\* the scorer raises
RiskData(matches, media_results, pep_flag, today, scorer_fails) ==
  IF scorer_fails THEN fallback_risk_data(matches, media_results, pep_flag)
  ELSE score_screening(matches, media_results, pep_flag, today)

-----------------------------------------------------------------------------
(* The media index: rss.py *)

\* the order of SQLite on the TEXT column published_date: NULL first, then
\* text by its characters; two texts of another format are left unordered
DateClass(d) == IF d = None THEN 0 ELSE IF d.text = "iso" THEN 1 ELSE 2

TzRank(tz) == CASE tz = "" -> 0 [] tz = "+00:00" -> 1 [] OTHER -> 2

DateBefore(a, b) ==
  \/ DateClass(a) < DateClass(b)
  \/ /\ DateClass(a) = 1 /\ DateClass(b) = 1
     /\ \/ a.day < b.day
        \/ a.day = b.day /\ TzRank(a.tz) < TzRank(b.tz)

\* the one-to-one maps of 1..n onto itself
Perms(n) == {f \in [1..n -> 1..n] : \A i, j \in 1..n : f[i] = f[j] => i = j}

MEDIA_LIMIT == 20

\* ",".join(tags): the text kept in the column tags
RECURSIVE join_tags(_)
join_tags(tags) ==
  IF tags = <<>> THEN <<>>
  ELSE IF Len(tags) = 1 THEN tags
  ELSE <<Head(tags), ",">> \o join_tags(Tail(tags))

\* row[6].split(",") if row[6] else []
split_tags(text) == SelectSeq(text, LAMBDA x : x # ",")

\* the lists search_media can return: the rows whose title or content holds
\* query_name (LIKE folds the case), ORDER BY published_date DESC in any of
\* the orders SQL allows for equal dates, LIMIT 20
search_media(index, query_name) ==
  LET keep(a) == \/ Contains(upper(a.title), upper(query_name))
                 \/ Contains(upper(a.content), upper(query_name))
      hits == SelectSeq(index, keep)
      n == Len(hits)
      orders == {f \in Perms(n) :
                   \A i, j \in 1..n :
                     i < j => ~DateBefore(hits[f[i]].published_date,
                                          hits[f[j]].published_date)}
  IN {Limit([i \in 1..n |-> [hits[f[i]] EXCEPT !.tags = split_tags(@)]], MEDIA_LIMIT) :
        f \in orders}

\* str.lower()
Lower(c) == CASE c = "A" -> "a" [] c = "B" -> "b" [] OTHER -> c

lower(s) == [i \in 1..Len(s) |-> Lower(s[i])]

\* self.keywords, in the order of the dict.  The words of the model's
\* alphabet stand for the keyword lists of the code: "bb" and the upper-case
\* "AA" for the sanctions list (which holds the upper-case SDN and OFAC),
\* "ba" for pep, "a" for fraud, "ab" for crime; "b" is no keyword.
keywords ==
  << [category |-> "sanctions", words |-> << <<"b", "b">>, <<"A", "A">> >>],
     [category |-> "pep", words |-> << <<"b", "a">> >>],
     [category |-> "fraud", words |-> << <<"a">> >>],
     [category |-> "crime", words |-> << <<"a", "b">> >>] >>

\* re.search(rf"\b{keyword}\b", full_text): the keyword at a place where no
\* letter comes before it and none after it
WordSearch(keyword, full_text) ==
  \E i \in 1..(Len(full_text) - Len(keyword) + 1) :
    /\ SubSeq(full_text, i, i + Len(keyword) - 1) = keyword
    /\ i = 1 \/ full_text[i - 1] \notin Letters
    /\ i + Len(keyword) > Len(full_text) \/ full_text[i + Len(keyword)] \notin Letters

\* tag_content
tag_content(title, content) ==
  LET full_text == lower(title \o <<" ">> \o content)
      hit(k) == \E w \in 1..Len(k.words) : WordSearch(k.words[w], full_text)
      tags == SelectSeq(keywords, hit)
  IN IF tags = <<>> THEN <<"other">>
     ELSE [i \in 1..Len(tags) |-> tags[i].category]

\* article_id = entry.get("id", entry.get("link", ""))
ArticleId(entry) == IF entry.id # None THEN entry.id.value ELSE entry.link

\* an INSERT OR REPLACE: the row takes the place of the one with its id
InsertOrReplace(index, row) ==
  IF \E i \in 1..Len(index) : index[i].id = row.id
  THEN [i \in 1..Len(index) |-> IF index[i].id = row.id THEN row ELSE index[i]]
  ELSE Append(index, row)

\* INSERT OR IGNORE INTO adverse_media: id is the primary key
InsertOrIgnore(index, row) ==
  IF \E i \in 1..Len(index) : index[i].id = row.id THEN index
  ELSE Append(index, row)

ENTRY_LIMIT == 50

\* the loop of ingest_feed over feed.entries[:50]; failed: the entries whose
\* processing raised
RECURSIVE IngestEntries(_, _, _, _, _)
IngestEntries(index, entries, source_name, failed, n) ==
  IF n > Min(Len(entries), ENTRY_LIMIT) THEN index
  ELSE LET entry == entries[n]
           row == [id |-> ArticleId(entry), source |-> source_name,
                   title |-> entry.title, content |-> entry.summary,
                   url |-> entry.link, published_date |-> entry.published,
                   tags |-> join_tags(tag_content(entry.title, entry.summary))]
       IN IF ArticleId(entry) = "" \/ n \in failed
          THEN IngestEntries(index, entries, source_name, failed, n + 1)
          ELSE IngestEntries(InsertOrIgnore(index, row), entries, source_name,
                             failed, n + 1)

-----------------------------------------------------------------------------
(* The audit log: logger.py *)

\* json.dumps of the payload: the text of its keys and values, in the order
\* of the dict
json_dumps(full_result) ==
  << <<"query_name", full_result.query_name>>,
     <<"query_dob", full_result.query_dob>>,
     <<"query_country", full_result.query_country>>,
     <<"sanctions_matches", full_result.sanctions_matches>>,
     <<"media_results", full_result.media_results>>,
     <<"risk_data", full_result.risk_data>>,
     <<"timestamp", full_result.timestamp>> >>

\* AuditLogger.log_screening: the table with the row it inserts; seq is the
\* last id the AUTOINCREMENT column gave out, t is CURRENT_TIMESTAMP, which
\* SQLite keeps to the second
log_screening(logs, seq, query_name, query_dob, query_country, sanctions_matches, media_matches, risk_level, risk_score, full_result, t) ==
  Append(logs,
         [id |-> seq + 1,
          query_name |-> query_name,
          query_dob |-> query_dob,
          query_country |-> query_country,
          sanctions_matches |-> Len(sanctions_matches),
          media_matches |-> Len(media_matches),
          risk_level |-> risk_level,
          risk_score |-> risk_score,
          query_timestamp |-> t,
          result_json |-> json_dumps(full_result)])

AUDIT_LIST_LIMIT == 100

Summary(row) ==
  [id |-> row.id, query_name |-> row.query_name, query_dob |-> row.query_dob,
   query_country |-> row.query_country,
   sanctions_matches |-> row.sanctions_matches,
   media_matches |-> row.media_matches, risk_level |-> row.risk_level,
   risk_score |-> row.risk_score, query_timestamp |-> row.query_timestamp]

\* the lists get_audit_log can return: ORDER BY query_timestamp DESC in any
\* of the orders SQL allows for equal timestamps, LIMIT limit
get_audit_log(logs, limit) ==
  LET n == Len(logs)
      orders == {f \in Perms(n) :
                   \A i, j \in 1..n :
                     i < j => logs[f[i]].query_timestamp >= logs[f[j]].query_timestamp}
  IN {Limit([i \in 1..n |-> Summary(logs[f[i]])], limit) : f \in orders}

\* json.loads of a text json_dumps wrote: the payload with its keys
json_loads(text) ==
  [query_name |-> text[1][2], query_dob |-> text[2][2],
   query_country |-> text[3][2], sanctions_matches |-> text[4][2],
   media_results |-> text[5][2], risk_data |-> text[6][2],
   timestamp |-> text[7][2]]

\* get_audit_entry: the payload of the row of that id, None without one
get_audit_entry(logs, log_id) ==
  IF \E i \in 1..Len(logs) : logs[i].id = log_id
  THEN json_loads(logs[CHOOSE i \in 1..Len(logs) : logs[i].id = log_id].result_json)
  ELSE None

\* the texts export_audit_log can return: every row, ORDER BY
\* query_timestamp DESC, as JSON; None for another format
export_audit_log(logs, format) ==
  LET n == Len(logs)
      orders == {f \in Perms(n) :
                   \A i, j \in 1..n :
                     i < j => logs[f[i]].query_timestamp >= logs[f[j]].query_timestamp}
      Exported(row) == [summary |-> Summary(row), result |-> json_loads(row.result_json)]
  IN IF format = "json"
     THEN {[data |-> [i \in 1..n |-> Exported(logs[f[i]])]] : f \in orders}
     ELSE {None}

AUDIT_RETENTION_DAYS == 365

\* datetime('now', '-' || AUDIT_RETENTION_DAYS || ' days') at time t
RetentionHorizon(t) == t - AUDIT_RETENTION_DAYS * SECONDS_PER_DAY

\* a sweep that also takes the rows written exactly at the horizon
CleanupUpToHorizon(logs, t) ==
  LET keep(row) == ~(row.query_timestamp <= RetentionHorizon(t))
  IN SelectSeq(logs, keep)

\* cleanup_old_logs: DELETE FROM audit_logs WHERE query_timestamp < horizon
cleanup_old_logs(logs, t) ==
  LET keep(row) == ~(row.query_timestamp < RetentionHorizon(t))
  IN SelectSeq(logs, keep)

-----------------------------------------------------------------------------
(* The screening call: perform_screening, one step per stage *)

QueryNames == { <<>>, <<" ">>, <<"-">>, <<"a">>, <<"A", " ", "B">> }

QueryDobs == {""}

QueryCountries == {"Any", "USA"}

\* the media index the calls find
MediaIndex ==
  << [id |-> "guid-1", source |-> "Reuters", title |-> <<"B", " ", "a">>,
      content |-> <<>>, url |-> "link-1",
      published_date |-> OtherDate(0), tags |-> <<"fraud">>] >>

\* what the process found when it started: whether rapidfuzz can be imported,
\* and whether the scorer singleton is there and works
Envs == [rapidfuzz : BOOLEAN, scorer : BOOLEAN]

\* the locals of a call; failed: the stages that raised inside a try block;
\* logs0, store0: the audit log and the store as the call found them
IdleCall ==
  [query_name |-> <<>>, query_dob |-> "", query_country |-> "Any",
   q_raw |-> <<>>, matches |-> <<>>, media_results |-> <<>>,
   risk_data |-> None, payload |-> None, failed |-> {},
   logs0 |-> <<>>, store0 |-> <<>>, refreshes |-> 0]

\* a name taken as typed, whitespace and all
QRawUnstripped(query_name) == query_name

\* q_raw = (query_name or "").strip()
QRaw(query_name) == strip(query_name)

\* the blank-name check: if not q_raw
IsBlank(query_name) == QRaw(query_name) = <<>>

\* the payload perform_screening builds and returns
Payload(c, t) ==
  [query_name |-> c.q_raw,
   query_dob |-> c.query_dob,
   query_country |-> IF c.query_country = "" THEN "Any" ELSE c.query_country,
   sanctions_matches |-> c.matches,
   media_results |-> c.media_results,
   risk_data |-> c.risk_data,
   timestamp |-> <<"utcnow", t>>]

\* lines 449-452: the call starts; a blank name is refused with a warning
Begin(query_name, query_dob, query_country) ==
  /\ pc \in {"idle", "done"}
  /\ call' = [IdleCall EXCEPT !.query_name = query_name,
                              !.query_dob = query_dob,
                              !.query_country = query_country,
                              !.q_raw = QRaw(query_name),
                              !.logs0 = audit_logs,
                              !.store0 = sanctions_entities]
  /\ stages' = <<>>
  /\ result' = None
  /\ raised' = "none"
  /\ listing' = None
  /\ IF IsBlank(query_name)
     THEN /\ st_msgs' = <<"warning: Please enter a subject name.">>
          /\ pc' = "done"
     ELSE /\ st_msgs' = <<>>
          /\ pc' = "ensure"
  /\ UNCHANGED <<sanctions_entities, adverse_media, audit_logs, audit_seq, now, env>>
  /\ UNCHANGED harness_vars

\* lines 457-458: loader.ensure_db(), outside any try block.  It replaces the
\* store by the feed's rows, or raises, before or after the table is emptied
EnsureDb ==
  /\ pc = "ensure"
  /\ call' = [call EXCEPT !.refreshes = @ + 1]
  /\ \/ \E df \in Feeds :
          /\ sanctions_entities' = normalize_and_store(df)
          /\ stages' = Append(stages, "ENTITY_STORE_READY")
          /\ pc' = "match"
          /\ UNCHANGED raised
     \/ /\ sanctions_entities' \in {sanctions_entities, <<>>}
        /\ raised' = "ensure_db"
        /\ pc' = "done"
        /\ UNCHANGED stages
  /\ UNCHANGED <<adverse_media, audit_logs, audit_seq, now, result, st_msgs, listing, env>>
  /\ UNCHANGED harness_vars

\* lines 461-530: tokens, the token-AND and token-OR queries (outside any try
\* block), the ranking (inside one)
Match ==
  /\ pc = "match"
  /\ LET q_up == upper(call.q_raw)
         tokens == Tokenize(q_up)
         ctry == Ctry(call.query_country)
     IN IF tokens = <<>>
        THEN /\ st_msgs' = Append(st_msgs, "info: No usable tokens from input.")
             /\ pc' = "done"
             /\ UNCHANGED <<call, stages, raised>>
        ELSE \/ /\ call' = [call EXCEPT
                      !.matches = Matches(sanctions_entities, q_up, tokens, ctry,
                                          ~env.rapidfuzz),
                      !.failed = IF ~env.rapidfuzz
                                    /\ PrefilterRows(sanctions_entities, tokens, ctry) # <<>>
                                 THEN @ \cup {"fuzz"} ELSE @]
                /\ stages' = Append(stages, "MATCHED")
                /\ pc' = "media"
                /\ UNCHANGED <<raised, st_msgs>>
             \/ /\ raised' = "query"
                /\ pc' = "done"
                /\ UNCHANGED <<call, stages, st_msgs>>
  /\ UNCHANGED <<sanctions_entities, adverse_media, audit_logs, audit_seq, now, result, listing, env>>
  /\ UNCHANGED harness_vars

\* lines 532-536: the media search, an empty list when it raises
MediaSearch ==
  /\ pc = "media"
  /\ \/ \E found \in search_media(adverse_media, call.q_raw) :
          call' = [call EXCEPT !.media_results = found]
     \/ call' = [call EXCEPT !.media_results = <<>>, !.failed = @ \cup {"media"}]
  /\ stages' = Append(stages, "MEDIA_SEARCHED")
  /\ pc' = "score"
  /\ UNCHANGED <<sanctions_entities, adverse_media, audit_logs, audit_seq, now, result, raised,
                 st_msgs, listing, env>>
  /\ UNCHANGED harness_vars

\* lines 538-556: the scorer, or the simplified formula when it raises
Score ==
  /\ pc = "score"
  /\ call' = [call EXCEPT
        !.risk_data = RiskData(call.matches, call.media_results,
                               PepFlag(call.query_country), Today(now), ~env.scorer),
        !.failed = IF ~env.scorer THEN @ \cup {"scorer"} ELSE @]
  /\ stages' = Append(stages, "SCORED")
  /\ pc' = "audit"
  /\ UNCHANGED <<sanctions_entities, adverse_media, audit_logs, audit_seq, now, result, raised,
                 st_msgs, listing, env>>
  /\ UNCHANGED harness_vars

\* an audit write that never inserts the row
AuditWriteDropped(logs, seq, c, payload, t, write_fails) == logs

\* an except clause that lets the failure of the audit write through
AuditRaisesPropagated(write_fails) == write_fails

\* the audit write of lines 568-575: a row is inserted, or the write raises
\* (or auditor is None) and the except clause passes
AuditWrite(logs, seq, c, payload, t, write_fails) ==
  IF write_fails THEN logs
  ELSE log_screening(logs, seq, c.q_raw, c.query_dob,
                     IF c.query_country = "" THEN "Any" ELSE c.query_country,
                     c.matches, c.media_results,
                     c.risk_data.risk_level, c.risk_data.composite_score, payload, t)

\* what the except clause of lines 574-575 lets through to the caller
AuditRaises(write_fails) == FALSE

\* lines 558-575: the payload is built and the audit row written
Audit ==
  /\ pc = "audit"
  /\ \E write_fails \in BOOLEAN :
       /\ call' = [call EXCEPT !.payload = Payload(call, now),
                               !.failed = IF write_fails THEN @ \cup {"audit"} ELSE @]
       /\ audit_logs' = AuditWrite(audit_logs, audit_seq, call, Payload(call, now), now,
                                   write_fails)
       /\ audit_seq' = IF write_fails THEN audit_seq ELSE audit_seq + 1
       /\ IF AuditRaises(write_fails)
          THEN /\ raised' = "audit" /\ pc' = "done" /\ UNCHANGED stages
          ELSE /\ stages' = Append(stages, "AUDITED") /\ pc' = "return"
               /\ UNCHANGED raised
  /\ UNCHANGED <<sanctions_entities, adverse_media, now, result, st_msgs, listing, env>>
  /\ UNCHANGED harness_vars

\* what line 577 returns
Returned(c) == c.payload

\* line 577: return payload
Return ==
  /\ pc = "return"
  /\ result' = Returned(call)
  /\ stages' = Append(stages, "RETURNED")
  /\ pc' = "done"
  /\ UNCHANGED <<sanctions_entities, adverse_media, audit_logs, audit_seq, now, call, raised,
                 st_msgs, listing, env>>
  /\ UNCHANGED harness_vars

\* get_audit_log is called between two screening calls; the locals and the
\* return value of the last screening call are gone by then
GetAuditLog ==
  /\ pc \in {"idle", "done"}
  /\ audit_logs # <<>>
  /\ \E entries \in get_audit_log(audit_logs, AUDIT_LIST_LIMIT) :
       listing' = [entries |-> entries]
  /\ pc' = "idle"
  /\ call' = IdleCall
  /\ stages' = <<>>
  /\ result' = None
  /\ raised' = "none"
  /\ st_msgs' = <<>>
  /\ UNCHANGED <<sanctions_entities, adverse_media, audit_logs, audit_seq, now, env>>
  /\ UNCHANGED harness_vars

\* a second passes
Tick ==
  /\ now < MaxTime
  /\ now' = now + 1
  /\ UNCHANGED <<sanctions_entities, adverse_media, audit_logs, audit_seq, pc, call, stages,
                 result, raised, st_msgs, listing, env>>
  /\ UNCHANGED harness_vars

\* the process after its singletons are built, before the first call
InitPipeline ==
  /\ sanctions_entities = <<>>
  /\ adverse_media = MediaIndex
  /\ audit_logs = <<>>
  /\ audit_seq = 0
  /\ now = 0
  /\ pc = "idle"
  /\ call = IdleCall
  /\ stages = <<>>
  /\ result = None
  /\ raised = "none"
  /\ st_msgs = <<>>
  /\ listing = None
  /\ env \in Envs

\* the variables of a part of the program that a specification leaves out
ScoreIdle == score_in = None /\ score_out = None

DecayIdle == decay_in = None /\ decay_out = None

MatchIdle == match_in = None /\ match_out = None

IngestIdle == ingest = None

\* the sessions that can run normalize_and_store at one time
Writers == {"w1", "w2"}

RefreshIdle == refresh = [w \in Writers |-> None] /\ fetched = None

FuzzyIdle == fuzzy = None

SweepIdle == swept = None

TagIdle == tagged = None

SearchIdle == searched = None

Init ==
  /\ InitPipeline
  /\ ScoreIdle
  /\ DecayIdle
  /\ MatchIdle
  /\ IngestIdle
  /\ RefreshIdle
  /\ FuzzyIdle
  /\ SweepIdle
  /\ TagIdle
  /\ SearchIdle

\* the steps of a call in flight, the listing, the clock
Step ==
  \/ EnsureDb
  \/ Match
  \/ MediaSearch
  \/ Score
  \/ Audit
  \/ Return
  \/ GetAuditLog
  \/ Tick

\* calls are started as long as the audit log holds fewer than MaxCalls rows
Next ==
  \/ /\ Len(audit_logs) < MaxCalls
     /\ \E query_name \in QueryNames, query_dob \in QueryDobs,
           query_country \in QueryCountries :
          Begin(query_name, query_dob, query_country)
  \/ Step

Spec == Init /\ [][Next]_vars

\* the same system, run until the audit log holds MaxListed rows
NextListed ==
  \/ /\ Len(audit_logs) < MaxListed
     /\ \E query_name \in QueryNames, query_dob \in QueryDobs,
           query_country \in QueryCountries :
          Begin(query_name, query_dob, query_country)
  \/ Step

SpecListed == Init /\ [][NextListed]_vars

-----------------------------------------------------------------------------
(* Step 5 of perform_screening on its own: the risk data for match lists,  *)
(* media lists and PEP flags that the stores of the model do not hold      *)

\* a match as step 3 leaves it
MatchOf(score) ==
  [entity_name |-> <<"B">>, country |-> "USA", match_score |-> score,
   explanation |-> <<"Token-AND SQL + RapidFuzz token_set_ratio = ", score>>]

\* match lists: none, one match of any score, two matches
MatchLists ==
  {<<>>} \cup {<<MatchOf(score)>> : score \in 0..100}
         \cup {<<MatchOf(s1), MatchOf(s2)>> : s1, s2 \in {0, 100}}

\* a media item as search_media returns it
MediaItem(published_date, tags) ==
  [id |-> "guid", source |-> "Reuters", title |-> <<"B">>, content |-> <<>>,
   url |-> "link", published_date |-> published_date, tags |-> tags]

\* a fresh, a dated and an undated item
MediaItems ==
  { MediaItem(IsoDate(0, ""), <<"fraud">>),
    MediaItem(OtherDate(0), <<"fraud">>),
    MediaItem(None, <<>>) }

\* an item without tags, published MaxAge days before the model's first day
OldItem == MediaItem(IsoDate(0 - MaxAge, ""), <<>>)

\* media lists of up to MaxMedia items, and lists that hold the old item
MediaLists ==
  UNION { [1..n -> MediaItems] : n \in 0..MaxMedia }
    \cup { <<OldItem>>, <<OldItem, OldItem>>, <<OldItem, MediaItem(IsoDate(0, ""), <<"fraud">>)>> }

InitScore ==
  /\ InitPipeline
  /\ score_in \in [sanctions_matches : MatchLists, media_results : MediaLists,
                   pep_flag : BOOLEAN]
  /\ score_out = None
  /\ DecayIdle
  /\ MatchIdle
  /\ IngestIdle
  /\ RefreshIdle
  /\ FuzzyIdle
  /\ SweepIdle
  /\ TagIdle
  /\ SearchIdle

\* lines 538-556 for the inputs drawn
ApplyScore ==
  /\ score_out = None
  /\ score_out' = RiskData(score_in.sanctions_matches, score_in.media_results,
                           score_in.pep_flag, Today(now), ~env.scorer)
  /\ UNCHANGED <<score_in, decay_in, decay_out, match_in, match_out, ingest>>
  /\ UNCHANGED <<refresh, fetched, fuzzy, swept, tagged, searched>>
  /\ UNCHANGED pipeline_vars

NextScore == ApplyScore

SpecScore == InitScore /\ [][NextScore]_vars

-----------------------------------------------------------------------------
(* _recency_decay on its own, for two publish dates *)

\* the values published_date can hold: none, ISO text with or without a
\* time zone, text in another format
DateValues ==
  {None}
    \cup {IsoDate(day, tz) : day \in (0 - MaxAge)..1, tz \in {"", "Z", "+00:00"}}
    \cup {OtherDate(day) : day \in {0 - MaxAge, 0}}

InitDecay ==
  /\ InitPipeline
  /\ decay_in \in [a : DateValues, b : DateValues]
  /\ decay_out = None
  /\ ScoreIdle
  /\ MatchIdle
  /\ IngestIdle
  /\ RefreshIdle
  /\ FuzzyIdle
  /\ SweepIdle
  /\ TagIdle
  /\ SearchIdle

\* _recency_decay of each of the two dates
ApplyDecay ==
  /\ decay_out = None
  /\ decay_out' = [a |-> recency_decay(decay_in.a, Today(now)),
                   b |-> recency_decay(decay_in.b, Today(now))]
  /\ UNCHANGED <<decay_in, score_in, score_out, match_in, match_out, ingest>>
  /\ UNCHANGED <<refresh, fetched, fuzzy, swept, tagged, searched>>
  /\ UNCHANGED pipeline_vars

NextDecay == ApplyDecay

SpecDecay == InitDecay /\ [][NextDecay]_vars

-----------------------------------------------------------------------------
(* Steps 1-3 of perform_screening on their own: the candidates for stores  *)
(* that the feed of the model does not give                                *)

\* the name cells and the countries of the feeds drawn
NameSamples == { <<"A">>, <<"B">>, <<"A", "B">>, <<"a", " ", "B">>, <<" ">> }

FeedRows == [sdn_name : NameSamples, country : {"USA", "Russia"}]

\* feeds of up to two rows
SmallFeeds == UNION { [1..n -> FeedRows] : n \in 0..2 }

\* feeds of MaxRows - 1 or MaxRows rows named A, or named AB, with or without
\* one row named A B after them
BigFeeds ==
  { [i \in 1..k |-> [sdn_name |-> head, country |-> "USA"]] \o tail :
      k \in (MaxRows - 1)..MaxRows,
      head \in { <<"A">>, <<"A", "B">> },
      tail \in { <<>>, << [sdn_name |-> <<"A", " ", "B">>, country |-> "USA"] >> } }

\* names that are not blank and hold a token
TokenNames == { <<"a">>, <<"b">>, <<"A", " ", "B">> }

InitMatch ==
  /\ InitPipeline
  /\ match_in \in [df : SmallFeeds \cup BigFeeds, query_name : TokenNames,
                   query_country : QueryCountries, fuzz_fails : BOOLEAN]
  /\ match_out = None
  /\ ScoreIdle
  /\ DecayIdle
  /\ IngestIdle
  /\ RefreshIdle
  /\ FuzzyIdle
  /\ SweepIdle
  /\ TagIdle
  /\ SearchIdle

\* lines 462-530 on the store that normalize_and_store leaves for the feed
ApplyMatch ==
  /\ match_out = None
  /\ LET q_up == upper(QRaw(match_in.query_name))
     IN match_out' =
          [matches |-> Matches(normalize_and_store(match_in.df), q_up, Tokenize(q_up),
                               Ctry(match_in.query_country), match_in.fuzz_fails)]
  /\ UNCHANGED <<match_in, score_in, score_out, decay_in, decay_out, ingest>>
  /\ UNCHANGED <<refresh, fetched, fuzzy, swept, tagged, searched>>
  /\ UNCHANGED pipeline_vars

NextMatch == ApplyMatch

SpecMatch == InitMatch /\ [][NextMatch]_vars

-----------------------------------------------------------------------------
(* Media ingestion: ingest_feed called again and again *)

\* entries of the feeds: two contents for guid-1, which the index holds from
\* the start, two for guid-2, an entry whose id is its link, one with neither
RssEntries ==
  { [id |-> [value |-> "guid-1"], link |-> "link-1", title |-> <<"a", "b">>,
     summary |-> <<>>, published |-> IsoDate(0, "Z")],
    [id |-> [value |-> "guid-2"], link |-> "link-2", title |-> <<"B", " ", "a">>,
     summary |-> <<"b", "b">>, published |-> OtherDate(0)],
    [id |-> [value |-> "guid-2"], link |-> "link-2", title |-> <<"a">>,
     summary |-> <<>>, published |-> None],
    [id |-> None, link |-> "link-3", title |-> <<"B">>,
     summary |-> <<>>, published |-> OtherDate(0)],
    [id |-> None, link |-> "", title |-> <<"B">>,
     summary |-> <<>>, published |-> None] }

\* feeds of one or two entries
RssFeeds == UNION { [1..n -> RssEntries] : n \in 1..2 }

SourceNames == {"Reuters", "BBC"}

\* ingest_feed: the entries are inserted and committed, or the feed cannot be
\* parsed or the commit raises and nothing is kept
IngestFeed(entries, source_name) ==
  /\ \/ \E failed \in SUBSET (1..Len(entries)) :
          /\ ingest' = [entries |-> entries, source_name |-> source_name,
                        failed |-> failed, aborted |-> FALSE]
          /\ adverse_media' =
               IngestEntries(adverse_media, entries, source_name, failed, 1)
     \/ /\ ingest' = [entries |-> entries, source_name |-> source_name,
                       failed |-> {}, aborted |-> TRUE]
        /\ UNCHANGED adverse_media
  /\ UNCHANGED <<sanctions_entities, audit_logs, audit_seq, now, pc, call, stages, result,
                 raised, st_msgs, listing, env>>
  /\ UNCHANGED <<score_in, score_out, decay_in, decay_out, match_in, match_out>>
  /\ UNCHANGED <<refresh, fetched, fuzzy, swept, tagged, searched>>

InitMedia ==
  /\ InitPipeline
  /\ env = [rapidfuzz |-> TRUE, scorer |-> TRUE]
  /\ IngestIdle
  /\ RefreshIdle
  /\ FuzzyIdle
  /\ SweepIdle
  /\ TagIdle
  /\ SearchIdle
  /\ ScoreIdle
  /\ DecayIdle
  /\ MatchIdle

NextMedia ==
  \E entries \in RssFeeds, source_name \in SourceNames : IngestFeed(entries, source_name)

SpecMedia == InitMedia /\ [][NextMedia]_vars

-----------------------------------------------------------------------------
(* tag_content on its own, for titles and contents no feed of the model    *)
(* carries                                                                 *)

\* the texts of at most n characters over the characters cs
RECURSIVE Texts(_, _)
Texts(cs, n) ==
  IF n = 0 THEN {<<>>}
  ELSE Texts(cs, n - 1) \cup {Append(t, c) : t \in Texts(cs, n - 1), c \in cs}

TagTitles == Texts({"a", "b", "A", " "}, MaxText)

TagContents == Texts({"a", "b", "-"}, MaxText - 1)

\* one call of tag_content(title, content)
TagContent(title, content) ==
  /\ tagged = None
  /\ tagged' = [title |-> title, content |-> content,
                tags |-> tag_content(title, content)]
  /\ UNCHANGED pipeline_vars
  /\ UNCHANGED <<score_in, score_out, decay_in, decay_out, match_in, match_out,
                 ingest, refresh, fetched, fuzzy, swept, searched>>

InitTag ==
  /\ InitPipeline
  /\ env = [rapidfuzz |-> TRUE, scorer |-> TRUE]
  /\ ScoreIdle
  /\ DecayIdle
  /\ MatchIdle
  /\ IngestIdle
  /\ RefreshIdle
  /\ FuzzyIdle
  /\ SweepIdle
  /\ TagIdle
  /\ SearchIdle

NextTag == \E title \in TagTitles, content \in TagContents : TagContent(title, content)

SpecTag == InitTag /\ [][NextTag]_vars

-----------------------------------------------------------------------------
(* search_media on its own, on indexes whose articles carry the publish    *)
(* dates feeds give: ISO-8601 texts, RFC-822 texts, or none                *)

SearchDates == {None, IsoDate(0, ""), IsoDate(1, ""), OtherDate(0), OtherDate(1)}

SearchTitles == { <<"a">>, <<"B">> }

\* the row ingest_feed keeps for the n-th article of a feed
SearchArticle(n, title, published_date) ==
  [id |-> <<"guid", n>>, source |-> "Reuters", title |-> title, content |-> <<>>,
   url |-> <<"link", n>>, published_date |-> published_date,
   tags |-> join_tags(tag_content(title, <<>>))]

\* the indexes of one or two articles
SearchIndexes ==
  UNION { { [i \in 1..n |-> SearchArticle(i, title[i], date[i])] :
              title \in [1..n -> SearchTitles], date \in [1..n -> SearchDates] } :
          n \in 1..2 }

SearchNames == { <<"a">>, <<"b">> }

\* one call of search_media(query_name)
SearchMedia(query_name) ==
  /\ searched = None
  /\ \E results \in search_media(adverse_media, query_name) :
       searched' = [query_name |-> query_name, results |-> results]
  /\ UNCHANGED pipeline_vars
  /\ UNCHANGED <<score_in, score_out, decay_in, decay_out, match_in, match_out,
                 ingest, refresh, fetched, fuzzy, swept, tagged>>

InitSearch ==
  /\ sanctions_entities = <<>>
  /\ adverse_media \in SearchIndexes
  /\ audit_logs = <<>>
  /\ audit_seq = 0
  /\ now = 0
  /\ pc = "idle"
  /\ call = IdleCall
  /\ stages = <<>>
  /\ result = None
  /\ raised = "none"
  /\ st_msgs = <<>>
  /\ listing = None
  /\ env = [rapidfuzz |-> TRUE, scorer |-> TRUE]
  /\ ScoreIdle
  /\ DecayIdle
  /\ MatchIdle
  /\ IngestIdle
  /\ RefreshIdle
  /\ FuzzyIdle
  /\ SweepIdle
  /\ TagIdle
  /\ SearchIdle

NextSearch == \E query_name \in SearchNames : SearchMedia(query_name)

SpecSearch == InitSearch /\ [][NextSearch]_vars

-----------------------------------------------------------------------------
(* A store refresh next to a reader: normalize_and_store in one session    *)
(* while another session reads the store.  executescript commits what it   *)
(* runs, so the DELETE is visible to every connection before the first     *)
(* INSERT; the INSERTs are one transaction, visible at con.commit()        *)

\* the feeds a refresh can download
RefreshFeeds ==
  Feeds \cup { << [sdn_name |-> <<"A", " ", "B">>, country |-> "USA"],
                  [sdn_name |-> <<"b">>, country |-> "Russia"] >> }

\* the country arguments of _fetch_rows; None is falsy like ""
FetchCountries == {"", "Any", "USA", "Russia"}

\* if country and country.strip().upper() != "ANY"
FetchFilter(country) ==
  IF country = "" \/ country = "Any" THEN None ELSE [value |-> upper_country(country)]

\* _fetch_rows: the (name, country) tuples of the rows with a name, of the
\* country asked for if one is
fetch_rows(store, country) ==
  LET keep(r) ==
        /\ r.name # <<>>
        /\ FetchFilter(country) # None =>
             upper_country(r.country) = FetchFilter(country).value
      rows == SelectSeq(store, keep)
  IN [i \in 1..Len(rows) |-> <<rows[i].name, rows[i].country>>]

\* lines 187-202: the frame is normalised, then executescript empties the
\* table and commits
RefreshDelete(w, df) ==
  /\ refresh[w] = None
  /\ refresh' = [refresh EXCEPT ![w] = [df |-> df, prev |-> sanctions_entities]]
  /\ sanctions_entities' = <<>>
  /\ UNCHANGED <<adverse_media, audit_logs, audit_seq, now, pc, call, stages, result,
                 raised, st_msgs, listing, env>>
  /\ UNCHANGED <<score_in, score_out, decay_in, decay_out, match_in, match_out,
                 ingest, fetched, fuzzy, swept, tagged, searched>>

\* lines 203-216: the rows are inserted after those the table holds, and
\* committed
RefreshInsert(w) ==
  /\ refresh[w] # None
  /\ sanctions_entities' = sanctions_entities \o normalize_and_store(refresh[w].df)
  /\ refresh' = [refresh EXCEPT ![w] = None]
  /\ UNCHANGED <<adverse_media, audit_logs, audit_seq, now, pc, call, stages, result,
                 raised, st_msgs, listing, env>>
  /\ UNCHANGED <<score_in, score_out, decay_in, decay_out, match_in, match_out,
                 ingest, fetched, fuzzy, swept, tagged, searched>>

\* lines 203-214 raise (the database is locked, the disk is full): the
\* connection is dropped and its INSERTs with it
RefreshRaise(w) ==
  /\ refresh[w] # None
  /\ refresh' = [refresh EXCEPT ![w] = None]
  /\ UNCHANGED <<sanctions_entities, adverse_media, audit_logs, audit_seq, now, pc, call,
                 stages, result, raised, st_msgs, listing, env>>
  /\ UNCHANGED <<score_in, score_out, decay_in, decay_out, match_in, match_out,
                 ingest, fetched, fuzzy, swept, tagged, searched>>

\* a reader in another session calls _fetch_rows; refresh is the calls of
\* normalize_and_store that were executing then
FetchRows(country) ==
  /\ fetched' = [country |-> country, rows |-> fetch_rows(sanctions_entities, country),
                 refresh |-> refresh]
  /\ UNCHANGED <<sanctions_entities, adverse_media, audit_logs, audit_seq, now, pc, call,
                 stages, result, raised, st_msgs, listing, env>>
  /\ UNCHANGED <<score_in, score_out, decay_in, decay_out, match_in, match_out,
                 ingest, refresh, fuzzy, swept, tagged, searched>>

InitRefresh ==
  /\ InitPipeline
  /\ ScoreIdle
  /\ DecayIdle
  /\ MatchIdle
  /\ IngestIdle
  /\ RefreshIdle
  /\ FuzzyIdle
  /\ SweepIdle
  /\ TagIdle
  /\ SearchIdle

NextRefresh ==
  \/ \E df \in RefreshFeeds : RefreshDelete("w1", df)
  \/ RefreshInsert("w1")
  \/ RefreshRaise("w1")
  \/ \E country \in FetchCountries : FetchRows(country)

SpecRefresh == InitRefresh /\ [][NextRefresh]_vars

\* two sessions refresh the store at one time: two screening calls in
\* ensure_db, or two calls of normalize_and_store.  SQLite lets one connection
\* write at a time, so each DELETE and each batch of INSERTs is one step
NextWriters ==
  \/ \E w \in Writers, df \in RefreshFeeds : RefreshDelete(w, df)
  \/ \E w \in Writers : RefreshInsert(w)
  \/ \E w \in Writers : RefreshRaise(w)

SpecWriters == InitRefresh /\ [][NextWriters]_vars

-----------------------------------------------------------------------------
(* The matcher of matcher.py: fuzzy_match, one call after another *)

\* the defaults of fuzzy_match
top_n == 5

threshold == 70

\* limit=max(top_n, 10)
EXTRACT_FLOOR == 10

\* the feeds ensure_db can download when fuzzy_match heals the store
FuzzyFeeds ==
  RefreshFeeds \cup { << [sdn_name |-> <<"a">>, country |-> "Russia"] >>,
                      << [sdn_name |-> <<" ">>, country |-> ""] >>,
                      << [sdn_name |-> <<"a", "b">>, country |-> "USA"] >> }

FuzzyNames == { <<>>, <<" ">>, <<"b">>, <<"A", " ", "B">>, <<"a", "b">> }

\* process.extract(q, names, scorer=fuzz.token_set_ratio, limit=...): the
\* (name, score, index) triples by decreasing score.  The model keeps the
\* score as int() leaves it, so among names of one truncated score it
\* allows every order
extract(q, names, limit) ==
  LET n == Len(names)
      score == [i \in 1..n |-> token_set_ratio(q, names[i])]
      orders == {f \in Perms(n) : \A i, j \in 1..n : i < j => score[f[i]] >= score[f[j]]}
  IN {Limit([k \in 1..n |-> [name |-> names[f[k]], score |-> score[f[k]], idx |-> f[k]]],
            limit) : f \in orders}

\* lines 43-49: the triples at or above the threshold, top_n at most
FuzzyHits(extracted, rows) ==
  LET keep(e) == e.score >= threshold
      kept == Limit(SelectSeq(extracted, keep), top_n)
  IN [k \in 1..Len(kept) |->
        [name |-> kept[k].name, score |-> kept[k].score,
         country |-> rows[kept[k].idx][2]]]

\* lines 52-69: UPPER(name) LIKE '%q%', of the country asked for, LIMIT top_n,
\* each scored 100
LikeRows(store, q, country) ==
  LET keep(r) ==
        /\ Contains(upper(r.name), upper(q))
        /\ FetchFilter(country) # None =>
             upper_country(r.country) = FetchFilter(country).value
      rows == Limit(SelectSeq(store, keep), top_n)
  IN [i \in 1..Len(rows) |->
        [name |-> rows[i].name, score |-> 100, country |-> rows[i].country]]

\* lines 38-70: the lists fuzzy_match can return for the rows it fetched
FuzzyResults(store, q, rows) ==
  LET names == [i \in 1..Len(rows) |-> rows[i][1]]
  IN {FuzzyHits(extracted, rows) :
        extracted \in extract(q, names, Max(top_n, EXTRACT_FLOOR))}

\* what fuzzy_match returns once its rows are fetched: the hits, or the rows
\* of the LIKE query when there is none
FuzzyReturn(store, q, country, rows) ==
  {IF results # <<>> THEN results ELSE LikeRows(store, q, country) :
     results \in FuzzyResults(store, q, rows)}

\* one call of fuzzy_match(name_query, country).  store0 is the store the
\* call found, refreshes the number of its calls of OFACLoader.ensure_db,
\* results what it returned, None when ensure_db raised
FuzzyMatch(name_query, country) ==
  LET q == upper(strip(name_query))
      rows == fetch_rows(sanctions_entities, country)
      done(n, results) ==
        fuzzy' = [name_query |-> name_query, country |-> country,
                  store0 |-> sanctions_entities, refreshes |-> n,
                  results |-> results]
  IN /\ IF strip(name_query) = <<>>
        THEN /\ done(0, [list |-> <<>>])
             /\ UNCHANGED sanctions_entities
        ELSE IF rows # <<>>
        THEN /\ \E results \in FuzzyReturn(sanctions_entities, q, country, rows) :
                  done(0, [list |-> results])
             /\ UNCHANGED sanctions_entities
        ELSE \/ \E df \in FuzzyFeeds :
                  LET store == normalize_and_store(df)
                      rows2 == fetch_rows(store, country)
                  IN /\ sanctions_entities' = store
                     /\ IF rows2 = <<>>
                        THEN done(1, [list |-> <<>>])
                        ELSE \E results \in FuzzyReturn(store, q, country, rows2) :
                               done(1, [list |-> results])
             \/ /\ sanctions_entities' \in {sanctions_entities, <<>>}
                /\ done(1, None)
     /\ UNCHANGED <<adverse_media, audit_logs, audit_seq, now, pc, call, stages, result,
                    raised, st_msgs, listing, env>>
     /\ UNCHANGED <<score_in, score_out, decay_in, decay_out, match_in, match_out,
                    ingest, refresh, fetched, swept, tagged, searched>>

InitFuzzy ==
  /\ InitPipeline
  /\ ScoreIdle
  /\ DecayIdle
  /\ MatchIdle
  /\ IngestIdle
  /\ RefreshIdle
  /\ FuzzyIdle
  /\ SweepIdle
  /\ TagIdle
  /\ SearchIdle

NextFuzzy ==
  \E name_query \in FuzzyNames, country \in FetchCountries :
    FuzzyMatch(name_query, country)

SpecFuzzy == InitFuzzy /\ [][NextFuzzy]_vars

-----------------------------------------------------------------------------
(* The audit log over the years: the screening calls, the readers of the   *)
(* log, media ingestion and the retention sweep                            *)

\* the ids get_audit_entry is asked for
LogIds == 1..MaxCalls

ExportFormats == {"json", "csv"}

\* get_audit_entry, between two screening calls
GetAuditEntry(log_id) ==
  /\ pc \in {"idle", "done"}
  /\ listing' = [entry |-> get_audit_entry(audit_logs, log_id)]
  /\ pc' = "idle"
  /\ call' = IdleCall
  /\ stages' = <<>>
  /\ result' = None
  /\ raised' = "none"
  /\ st_msgs' = <<>>
  /\ UNCHANGED <<sanctions_entities, adverse_media, audit_logs, audit_seq, now, env>>
  /\ UNCHANGED harness_vars

\* export_audit_log, between two screening calls
ExportAuditLog(format) ==
  /\ pc \in {"idle", "done"}
  /\ \E text \in export_audit_log(audit_logs, format) : listing' = [export |-> text]
  /\ pc' = "idle"
  /\ call' = IdleCall
  /\ stages' = <<>>
  /\ result' = None
  /\ raised' = "none"
  /\ st_msgs' = <<>>
  /\ UNCHANGED <<sanctions_entities, adverse_media, audit_logs, audit_seq, now, env>>
  /\ UNCHANGED harness_vars

\* cleanup_old_logs, between two screening calls; swept keeps the table and
\* the time the sweep found
CleanupOldLogs ==
  /\ pc \in {"idle", "done"}
  /\ audit_logs' = cleanup_old_logs(audit_logs, now)
  /\ swept' = [logs |-> audit_logs, now |-> now]
  /\ UNCHANGED <<sanctions_entities, adverse_media, audit_seq, now, pc, call, stages,
                 result, raised, st_msgs, listing, env>>
  /\ UNCHANGED <<score_in, score_out, decay_in, decay_out, match_in, match_out,
                 ingest, refresh, fetched, fuzzy, tagged, searched>>

\* the process is left alone for the length of the retention period
Wait ==
  /\ pc \in {"idle", "done"}
  /\ now < MaxWaits * AUDIT_RETENTION_DAYS * SECONDS_PER_DAY
  /\ now' = now + AUDIT_RETENTION_DAYS * SECONDS_PER_DAY
  /\ UNCHANGED <<sanctions_entities, adverse_media, audit_logs, audit_seq, pc, call,
                 stages, result, raised, st_msgs, listing, env>>
  /\ UNCHANGED harness_vars

\* the feed ingested next to the screening calls
AuditRssFeeds ==
  { << [id |-> [value |-> "guid-2"], link |-> "link-2", title |-> <<"B", " ", "a">>,
        summary |-> <<"b", "b">>, published |-> OtherDate(0)] >> }

\* the names screened while the audit log is watched
AuditNames == { <<"a">> }

InitAudit ==
  /\ Init
  /\ env = [rapidfuzz |-> TRUE, scorer |-> TRUE]

\* calls are started as long as fewer than MaxCalls audit rows were written
NextAudit ==
  \/ /\ audit_seq < MaxCalls
     /\ \E query_name \in AuditNames, query_dob \in QueryDobs,
           query_country \in QueryCountries :
          Begin(query_name, query_dob, query_country)
  \/ Step
  \/ \E log_id \in LogIds : GetAuditEntry(log_id)
  \/ \E format \in ExportFormats : ExportAuditLog(format)
  \/ CleanupOldLogs
  \/ Wait
  \/ /\ pc \in {"idle", "done"}
     /\ \E entries \in AuditRssFeeds : IngestFeed(entries, "Reuters")

SpecAudit == InitAudit /\ [][NextAudit]_vars

-----------------------------------------------------------------------------
(* Claims about the screening call and the audit log *)

\* a name that is empty or holds whitespace only
AllWhitespace(name) == \A i \in 1..Len(name) : name[i] \in Whitespace

\* the call in flight, or the last one, has returned a payload
HasReturned == pc = "done" /\ result # None

\* the rows the call in flight, or the last one, has added to the audit log
RowsAdded == SubSeq(audit_logs, Len(call.logs0) + 1, Len(audit_logs))

LogExtendsLogs0 ==
  /\ Len(audit_logs) >= Len(call.logs0)
  /\ SubSeq(audit_logs, 1, Len(call.logs0)) = call.logs0

AllStages ==
  <<"ENTITY_STORE_READY", "MATCHED", "MEDIA_SEARCHED", "SCORED", "AUDITED", "RETURNED">>

IsPrefix(s, t) == Len(s) <= Len(t) /\ SubSeq(t, 1, Len(s)) = s

\* C1, as claimed: every screening call that returns a result has appended
\* exactly one row to the audit log during that call, and the row's payload
\* is the serialization of the result returned.
C1_OneRowPerResult ==
  HasReturned =>
    /\ LogExtendsLogs0
    /\ Len(RowsAdded) = 1
    /\ RowsAdded[1].result_json = json_dumps(result)

\* C1, amended: a screening call appends nothing to the audit log before its
\* audit step and at most one row in all; a call that returns a result has
\* appended exactly one row, whose payload is the serialization of the
\* result returned, when its audit write succeeded, and no row when its
\* audit write failed; the rows that were there before are left as they were.
C1_OneRowPerAuditedResult ==
  /\ pc # "idle" => LogExtendsLogs0 /\ Len(RowsAdded) <= 1
  /\ pc \in {"ensure", "match", "media", "score", "audit"} => RowsAdded = <<>>
  /\ HasReturned =>
       IF "audit" \in call.failed
       THEN RowsAdded = <<>>
       ELSE /\ Len(RowsAdded) = 1
            /\ RowsAdded[1].result_json = json_dumps(result)

\* a second call has returned its result and added the second row
C1_Witness ==
  /\ HasReturned
  /\ "audit" \notin call.failed
  /\ Len(call.logs0) = 1
  /\ Len(audit_logs) = 2

\* C2: a screening call whose subject name is empty or whitespace-only is
\* refused before any stage runs: it completes no stage, leaves the entity
\* store and the audit log as it found them, computes no match list, media
\* list or risk data, raises nothing and returns no result.
C2_BlankNameRejected ==
  (pc # "idle" /\ AllWhitespace(call.query_name)) =>
    /\ pc = "done"
    /\ stages = <<>>
    /\ result = None
    /\ raised = "none"
    /\ audit_logs = call.logs0
    /\ sanctions_entities = call.store0
    /\ call.matches = <<>> /\ call.media_results = <<>>
    /\ call.risk_data = None /\ call.payload = None
    /\ st_msgs = <<"warning: Please enter a subject name.">>

\* a whitespace-only name was refused when the audit log and the store held rows
C2_Witness ==
  /\ pc = "done"
  /\ call.query_name = <<" ">>
  /\ audit_logs # <<>>
  /\ sanctions_entities # <<>>
  /\ result = None

\* C3, as claimed: starting from an empty audit log, after three successful
\* screening calls get_audit_log lists exactly three entries, the last
\* call's entry first and the first call's entry last.
C3_ListedNewestFirst ==
  (listing # None /\ Len(audit_logs) = 3) =>
    /\ Len(listing.entries) = 3
    /\ \A i \in 1..3 : listing.entries[i] = Summary(audit_logs[4 - i])

\* C4, as claimed: a screening call whose subject name is not blank passes
\* through the stages store-ready, matched, media-searched, scored, audited,
\* returned in that order, each once, and does not end before RETURNED.
C4_AllStagesInOrder ==
  (pc # "idle" /\ ~AllWhitespace(call.query_name)) =>
    /\ IsPrefix(stages, AllStages)
    /\ pc = "done" => (stages = AllStages /\ result # None /\ raised = "none")

\* C5, as claimed: when the store refresh, the entity-store query, the fuzzy
\* ranking or the media search raises during a call with a non-blank name,
\* the call does not fail: the failing stage contributes an empty list and
\* the call goes on through scoring and audit and returns a result.
C5_StageErrorsNotFatal ==
  (pc = "done" /\ ~AllWhitespace(call.query_name)) =>
    /\ raised = "none"
    /\ "fuzz" \in call.failed => call.matches = <<>>
    /\ "media" \in call.failed => call.media_results = <<>>
    /\ call.failed \cap {"fuzz", "media"} # {} => result # None

-----------------------------------------------------------------------------
(* Claims about the risk data *)

\* C7, as claimed: the composite score of the risk data, from the scorer or
\* from the simplified formula, for all match lists, media lists and PEP
\* flags, is at least 0 and at most 100.
C7_CompositeWithin0And100 ==
  score_out # None =>
    0 <= score_out.composite_score /\ score_out.composite_score <= 100 * 100

\* C8, as claimed: the risk level is HIGH if and only if the returned
\* composite score is at least 75, MEDIUM if and only if it is at least 40
\* and less than 75, and LOW otherwise.
C8_LevelFromThresholds ==
  score_out # None =>
    score_out.risk_level =
      IF score_out.composite_score >= 100 * RISK_THRESHOLDS.HIGH THEN "HIGH"
      ELSE IF score_out.composite_score >= 100 * RISK_THRESHOLDS.MEDIUM THEN "MEDIUM"
      ELSE "LOW"

\* the sum of weight * score over the breakdown, in ten-thousandths
BreakdownSum(risk_data) ==
  risk_data.breakdown.sanctions.weight * risk_data.breakdown.sanctions.score
    + risk_data.breakdown.media.weight * risk_data.breakdown.media.score
    + risk_data.breakdown.pep.weight * risk_data.breakdown.pep.score

\* C9, as claimed: the composite score equals the sum over sanctions, media
\* and pep of the breakdown's weight times the breakdown's score, clamped to
\* 0..100, to within 0.01 (the rounding of the scores returned).
C9_CompositeIsBreakdownSum ==
  score_out # None =>
    LET clamped == Max(0, Min(100 * 100 * 100, BreakdownSum(score_out)))
        diff == clamped - 100 * score_out.composite_score
    IN -100 <= diff /\ diff <= 100

\* C10, as claimed: the decay of any publish-date value lies in [0.1, 1.0],
\* and of two articles whose publish dates are ISO dates, with or without a
\* time zone suffix, the older one never receives a larger decay.
C10_DecayBoundedAndMonotone ==
  decay_out # None =>
    /\ MEDIA_RECENCY_FACTOR <= 10 * decay_out.a /\ decay_out.a <= MEDIA_RECENCY_FACTOR
    /\ MEDIA_RECENCY_FACTOR <= 10 * decay_out.b /\ decay_out.b <= MEDIA_RECENCY_FACTOR
    /\ ( /\ decay_in.a # None /\ decay_in.b # None
         /\ decay_in.a.text = "iso" /\ decay_in.b.text = "iso"
         /\ decay_in.a.day <= decay_in.b.day )
       => decay_out.a <= decay_out.b

-----------------------------------------------------------------------------
(* Claims about the entity store and the candidates *)

\* the store, the query and the country filter of the matching drawn
MatchStore == normalize_and_store(match_in.df)

MatchTokens == Tokenize(upper(strip(match_in.query_name)))

MatchCtry == Ctry(match_in.query_country)

\* a row that the token-OR query selects, whatever its row limit
OrSelects(r) ==
  /\ r.name # <<>>
  /\ \E i \in 1..Len(MatchTokens) : Contains(upper(r.name), MatchTokens[i])
  /\ MatchCtry # None => upper_country(r.country) = MatchCtry.value

\* a row that the token-AND query selects, whatever its row limit
AndSelects(r) ==
  /\ r.name # <<>>
  /\ \A i \in 1..Len(MatchTokens) : Contains(upper(r.name), MatchTokens[i])
  /\ MatchCtry # None => upper_country(r.country) = MatchCtry.value

\* candidate m is one of rows
InRows(m, rows) ==
  \E i \in 1..Len(rows) : rows[i].name = m.entity_name /\ rows[i].country = m.country

\* the drawn query has a row for its token-AND prefilter
AndYieldsRows == match_out # None /\ \E i \in 1..Len(MatchStore) : AndSelects(MatchStore[i])

C14_NoEmptyNameStored ==
  \A i \in 1..Len(sanctions_entities) : sanctions_entities[i].name # <<>>

\* the candidates are in non-increasing order of match score
ScoresNonIncreasing(matches) ==
  \A i, j \in 1..Len(matches) :
    i < j => matches[i].match_score >= matches[j].match_score

\* rows a and b of the store, a before b, are the candidates m and n
StoreOrder(m, n) ==
  \E a, b \in 1..Len(MatchStore) :
    /\ a < b
    /\ MatchStore[a].name = m.entity_name /\ MatchStore[a].country = m.country
    /\ MatchStore[b].name = n.entity_name /\ MatchStore[b].country = n.country

\* C17, as claimed: the candidate list is in non-increasing order of match
\* score, and candidates of equal score appear in the order in which the
\* store returned them.
C17_TiesInStoreOrder ==
  match_out # None =>
    /\ ScoresNonIncreasing(match_out.matches)
    /\ \A i, j \in 1..Len(match_out.matches) :
         ( /\ i < j
           /\ match_out.matches[i].match_score = match_out.matches[j].match_score
           /\ <<match_out.matches[i].entity_name, match_out.matches[i].country>>
                # <<match_out.matches[j].entity_name, match_out.matches[j].country>> )
         => StoreOrder(match_out.matches[i], match_out.matches[j])

\* C17, amended: the candidate list is in non-increasing order of match
\* score; when RapidFuzz ranks it, candidates of equal score appear in
\* descending order of name, then of country; when RapidFuzz cannot be used,
\* the candidates are the first ten prefilter rows in the order of the store.
C17_TiesInNameOrder ==
  match_out # None =>
    /\ ScoresNonIncreasing(match_out.matches)
    /\ ~match_in.fuzz_fails =>
         \A i \in 1..(Len(match_out.matches) - 1) :
           LET m == match_out.matches[i]
               n == match_out.matches[i + 1]
           IN m.match_score = n.match_score =>
                \/ StrLess(n.entity_name, m.entity_name)
                \/ n.entity_name = m.entity_name
                     /\ CountryRank(n.country) <= CountryRank(m.country)
    /\ match_in.fuzz_fails =>
         LET rows == IF SelectSeq(MatchStore, AndSelects) # <<>>
                     THEN SelectSeq(MatchStore, AndSelects)
                     ELSE SelectSeq(MatchStore, OrSelects)
         IN /\ Len(match_out.matches) = Min(10, Len(rows))
            /\ \A i \in 1..Len(match_out.matches) :
                 /\ match_out.matches[i].entity_name = rows[i].name
                 /\ match_out.matches[i].country = rows[i].country

\* RapidFuzz has ranked two candidates of equal score against the order of
\* the store
C17_Witness ==
  /\ match_out # None
  /\ ~match_in.fuzz_fails
  /\ Len(match_out.matches) = 2
  /\ match_out.matches[1].match_score = match_out.matches[2].match_score
  /\ match_out.matches[1].entity_name # match_out.matches[2].entity_name
  /\ ~StoreOrder(match_out.matches[1], match_out.matches[2])

FUZZY_MATCH_THRESHOLD == 80

\* C18, as claimed: every candidate of the match list has a match score of
\* at least the configured fuzzy-match threshold, and the list holds at most
\* ten candidates.
C18_CandidatesAboveThreshold ==
  match_out # None =>
    /\ \A i \in 1..Len(match_out.matches) :
         match_out.matches[i].match_score >= FUZZY_MATCH_THRESHOLD
    /\ Len(match_out.matches) <= TOP_RANKED

\* C20, as claimed: a screening call that finds the entity store non-empty
\* does not refresh it and leaves its contents unchanged.
C20_NonEmptyStoreLeftAlone ==
  (pc # "idle" /\ call.store0 # <<>>) =>
    /\ call.refreshes = 0
    /\ sanctions_entities = call.store0

-----------------------------------------------------------------------------
(* Claims about the default weights *)

\* the scorer has scored a best match of 100 with no media and no PEP flag
PerfectMatchAlone ==
  /\ score_out # None
  /\ env.scorer
  /\ score_in.sanctions_matches # <<>>
  /\ \E i \in 1..Len(score_in.sanctions_matches) :
       score_in.sanctions_matches[i].match_score = 100
  /\ score_in.media_results = <<>>
  /\ ~score_in.pep_flag

\* C16: with the default weights and thresholds, RiskScorer.score_screening
\* gives a best match score of 100 with no media items and no PEP flag the
\* composite score 60.00 exactly and the risk level MEDIUM.
C16_PerfectMatchIsMedium ==
  PerfectMatchAlone =>
    /\ score_out.composite_score = 60 * 100
    /\ score_out.risk_level = "MEDIUM"
    /\ score_out.breakdown.sanctions.score = 100 * 100

\* two matches, of 0 and of 100, were scored with no media and no PEP flag
C16_Witness ==
  /\ PerfectMatchAlone
  /\ Len(score_in.sanctions_matches) = 2
  /\ score_in.sanctions_matches[1].match_score = 0
  /\ score_out.risk_level = "MEDIUM"

-----------------------------------------------------------------------------
(* Claims about the media index *)

\* no two records of the index have the same id
OneRecordPerId ==
  \A i, j \in 1..Len(adverse_media) :
    i # j => adverse_media[i].id # adverse_media[j].id

\* entry n of the ingestion just made was inserted: it has an id, it did not
\* raise, and no entry before it in the feed with the same id was inserted
FirstOfItsId(n) ==
  /\ ~ingest'.aborted
  /\ n \notin ingest'.failed
  /\ ArticleId(ingest'.entries[n]) # ""
  /\ \A m \in 1..(n - 1) :
       ArticleId(ingest'.entries[m]) = ArticleId(ingest'.entries[n])
         => m \in ingest'.failed

\* C11: the index holds one record per id; an ingestion leaves every record
\* that the index already holds as it is, and adds for each id that is new
\* one record, with the fields of the first entry of that id that it took.
C11_FirstIngestionKept ==
  /\ []OneRecordPerId
  /\ [][ /\ Len(adverse_media') >= Len(adverse_media)
         /\ \A i \in 1..Len(adverse_media) : adverse_media'[i] = adverse_media[i]
         /\ \A k \in (Len(adverse_media) + 1)..Len(adverse_media') :
              /\ \A i \in 1..Len(adverse_media) :
                   adverse_media[i].id # adverse_media'[k].id
              /\ \E n \in 1..Len(ingest'.entries) :
                   /\ FirstOfItsId(n)
                   /\ adverse_media'[k].id = ArticleId(ingest'.entries[n])
                   /\ adverse_media'[k].source = ingest'.source_name
                   /\ adverse_media'[k].title = ingest'.entries[n].title
                   /\ adverse_media'[k].content = ingest'.entries[n].summary
                   /\ adverse_media'[k].url = ingest'.entries[n].link
                   /\ adverse_media'[k].published_date = ingest'.entries[n].published
                   /\ split_tags(adverse_media'[k].tags)
                        = tag_content(ingest'.entries[n].title,
                                      ingest'.entries[n].summary)
    ]_vars

\* the last feed ingested carried guid-2 with another title than the record
\* that the index keeps for it
C11_Witness ==
  /\ ingest # None
  /\ ~ingest.aborted
  /\ \E i \in 1..Len(adverse_media), n \in 1..Len(ingest.entries) :
       /\ n \notin ingest.failed
       /\ adverse_media[i].id = "guid-2"
       /\ ArticleId(ingest.entries[n]) = "guid-2"
       /\ adverse_media[i].title # ingest.entries[n].title
       /\ adverse_media[i].source # ingest.source_name


\* C13: a read that runs while normalize_and_store is executing returns the
\* rows of the complete previous generation or those of the complete new
\* one, never an empty or partial row set
C13_ReadsSeeWholeGeneration ==
  \A w \in Writers :
    (fetched # None /\ fetched.refresh[w] # None) =>
      fetched.rows \in
        { fetch_rows(fetched.refresh[w].prev, fetched.country),
          fetch_rows(normalize_and_store(fetched.refresh[w].df), fetched.country) }


\* C19: a fuzzy_match call for a name that is not blank refreshes the store
\* exactly once if the store is empty when the call starts and not at all
\* otherwise; a store still empty after that refresh gives an empty list and
\* no second refresh
C19_RefreshOnlyWhenStoreEmpty ==
  (fuzzy # None /\ strip(fuzzy.name_query) # <<>>) =>
    /\ fuzzy.refreshes = (IF fuzzy.store0 = <<>> THEN 1 ELSE 0)
    /\ (fuzzy.refreshes = 1 /\ sanctions_entities = <<>> /\ fuzzy.results # None) =>
         fuzzy.results.list = <<>>


\* the audit row is in the table after the step as it was before it
KeptAsWritten(row) == \E j \in 1..Len(audit_logs') : audit_logs'[j] = row

\* the step is a retention sweep
IsSweep == swept' # swept

\* C15: every operation leaves every audit entry present with all its fields
\* unchanged, except the retention sweep, which removes the entries older
\* than the retention horizon, all of them and no others
C15_AuditRowsKeptUntilSwept ==
  [][ /\ \A i \in 1..Len(audit_logs) :
           \/ KeptAsWritten(audit_logs[i])
           \/ /\ IsSweep
              /\ audit_logs[i].query_timestamp < RetentionHorizon(now)
      /\ IsSweep =>
           \A i \in 1..Len(audit_logs) :
             audit_logs[i].query_timestamp < RetentionHorizon(now) =>
               ~KeptAsWritten(audit_logs[i]) ]_vars

\* a sweep found two entries, removed the one older than the horizon and
\* kept the one written exactly at the horizon
C15_Witness ==
  /\ swept # None
  /\ Len(swept.logs) = 2
  /\ swept.logs[1].query_timestamp < RetentionHorizon(swept.now)
  /\ swept.logs[2].query_timestamp = RetentionHorizon(swept.now)
  /\ audit_logs = <<swept.logs[2]>>


\* C21: once the store replacements that ran have ended, in whatever order
\* their steps were taken, the store holds the rows of one feed generation
\* (or none, if the last replacement raised): never rows of two generations,
\* never one generation twice
C21_OneGenerationStored ==
  (\A w \in Writers : refresh[w] = None) =>
    \/ sanctions_entities = <<>>
    \/ \E df \in RefreshFeeds : sanctions_entities = normalize_and_store(df)


\* the explanation texts a result carries: those of its candidates, and the
\* one of its risk data if the risk data has one
ExplanationTexts(payload) ==
  {payload.sanctions_matches[i].explanation[1] :
     i \in 1..Len(payload.sanctions_matches)}
  \cup (IF "explanation" \in DOMAIN payload.risk_data
        THEN {payload.risk_data.explanation} ELSE {})

\* the explanation texts of a result the scorer's own formula produced
PrimaryExplanations ==
  {"Token-AND SQL + RapidFuzz token_set_ratio = ", "Token-AND SQL (no RapidFuzz)"}

\* C22: a result whose risk data comes from the simplified formula, the
\* scorer having failed, carries an explanation text that marks it as
\* degraded: a text no result of the scorer's own formula carries
C22_FallbackMarkedDegraded ==
  (HasReturned /\ "scorer" \in call.failed) =>
    ExplanationTexts(result) \ PrimaryExplanations # {}

\* C23: when the audit write of a call fails, the call shows a warning or
\* logs an event on the operator channel before it completes
C23_AuditFailureWarned ==
  (pc = "done" /\ "audit" \in call.failed) => st_msgs # <<>>


\* the last fuzzy_match call returned the rows of its substring search: it
\* returned entities, none with a fuzzy score at or above the threshold
FuzzyFellBack ==
  /\ fuzzy # None
  /\ fuzzy.results # None
  /\ fuzzy.results.list # <<>>
  /\ \A i \in 1..Len(fuzzy.results.list) :
       token_set_ratio(upper(strip(fuzzy.name_query)), fuzzy.results.list[i].name)
         < threshold

\* C24: when a match falls back to the substring search of the whole query
\* over the entity names, every entity it returns has score 100 and the
\* explanation "substring fallback, no similarity scoring applied"
C24_SubstringFallbackExplained ==
  FuzzyFellBack =>
    \A i \in 1..Len(fuzzy.results.list) :
      /\ fuzzy.results.list[i].score = 100
      /\ "explanation" \in DOMAIN fuzzy.results.list[i]
      /\ fuzzy.results.list[i].explanation =
           "substring fallback, no similarity scoring applied"


\* a keyword of the category occurs as a whole word in the lower-cased
\* title and content
KeywordOccurs(k, title, content) ==
  \E w \in 1..Len(k.words) :
    WordSearch(lower(k.words[w]), lower(title \o <<" ">> \o content))

\* C25: tag_content assigns a category if and only if a keyword of its list,
\* whichever keyword of the list it is, occurs as a whole word in the
\* lower-cased title and content; its result is never empty, and is "other"
\* alone if and only if no keyword of any category occurs
C25_TaggedIffKeywordOccurs ==
  tagged # None =>
    /\ \A c \in 1..Len(keywords) :
         (keywords[c].category \in Range(tagged.tags))
           <=> KeywordOccurs(keywords[c], tagged.title, tagged.content)
    /\ tagged.tags # <<>>
    /\ (tagged.tags = <<"other">>)
         <=> (\A c \in 1..Len(keywords) :
                ~KeywordOccurs(keywords[c], tagged.title, tagged.content))


\* the article holds the name in its title or its content, whatever the case
HoldsName(a, name) ==
  \/ Contains(upper(a.title), upper(name))
  \/ Contains(upper(a.content), upper(name))

\* article a was published on a later day than article b
PublishedLater(a, b) ==
  /\ a.published_date # None
  /\ b.published_date # None
  /\ a.published_date.day > b.published_date.day

\* C26: search_media returns at most 20 articles, each holding the name in
\* its title or content, most recently published first: none is published
\* later than one listed before it, and no matching article left out is
\* published later than one returned
C26_NewestTwentyFirst ==
  searched # None =>
    LET results == searched.results
        returned == {results[i].id : i \in 1..Len(results)}
    IN /\ Len(results) <= MEDIA_LIMIT
       /\ \A i \in 1..Len(results) : HoldsName(results[i], searched.query_name)
       /\ \A i, j \in 1..Len(results) :
            i < j => ~PublishedLater(results[j], results[i])
       /\ \A k \in 1..Len(adverse_media) :
            (HoldsName(adverse_media[k], searched.query_name)
               /\ adverse_media[k].id \notin returned) =>
              \A i \in 1..Len(results) : ~PublishedLater(adverse_media[k], results[i])


\* the rows of the store that the prefilter in force selects, whatever its
\* row limit: those of token-AND, or those of token-OR when token-AND has none
PrefilterSelects(r) ==
  IF \E i \in 1..Len(MatchStore) : AndSelects(MatchStore[i])
  THEN AndSelects(r)
  ELSE OrSelects(r)

\* the fuzzy score of a row for the drawn query
FuzzyScore(r) ==
  token_set_ratio(upper(strip(match_in.query_name)), upper(r.name))

\* C27: with RapidFuzz at work, the first candidate has the highest fuzzy
\* score of all rows of the store that the prefilter in force selects, and
\* no such row with a score above that of a returned candidate is left out
C27_FirstCandidateIsBest ==
  (match_out # None /\ ~match_in.fuzz_fails /\ match_out.matches # <<>>) =>
    \A k \in 1..Len(MatchStore) :
      PrefilterSelects(MatchStore[k]) =>
        /\ FuzzyScore(MatchStore[k]) <= match_out.matches[1].match_score
        /\ FuzzyScore(MatchStore[k])
             > match_out.matches[Len(match_out.matches)].match_score
             => \E i \in 1..Len(match_out.matches) :
                  InRows(match_out.matches[i], <<MatchStore[k]>>)


\* the scorer's own formula has scored the drawn inputs
ScorerScored == score_out # None /\ env.scorer

\* C28: with the default weights and thresholds RiskScorer.score_screening
\* never returns HIGH for an empty media list, whatever the match scores and
\* the PEP flag: the media score of a list that is not empty lies between 3
\* and 50, the composite is at most 77, and at most 62 without media
C28_NeverHighWithoutMedia ==
  ScorerScored =>
    /\ score_in.media_results = <<>> =>
         /\ score_out.risk_level # "HIGH"
         /\ score_out.composite_score <= 62 * 100
    /\ score_in.media_results # <<>> =>
         /\ score_out.media_score >= 3 * 100
         /\ score_out.media_score <= 50 * 100
    /\ score_out.composite_score <= 77 * 100

\* a match of 100 with the PEP flag and no media was scored 62, MEDIUM
C28_Witness ==
  /\ ScorerScored
  /\ score_in.media_results = <<>>
  /\ score_in.pep_flag
  /\ BestMatch(score_in.sanctions_matches) = 100
  /\ score_out.composite_score = 62 * 100
  /\ score_out.risk_level = "MEDIUM"

=============================================================================
